---- MODULE Spec2Model ----
(***************************************************************************)
(* The port scanner of cmd/portscan/main.go: the scan engine of main (a    *)
(* feeder, a pool of workers, a supervisor and the drain loop, over two    *)
(* buffered channels) and the port specification expander expandPortSpec.  *)
(***************************************************************************)
EXTENDS Integers, Sequences, FiniteSets, TLC

\* ------------------------------------------------------------------ bounds

\* Ports of the scan engine's plans are drawn from 1..MaxPort.
MaxPort == 3
\* The -workers flag is drawn from 1..MaxWorkers.
MaxWorkers == 2
\* The -resbuf flag is drawn from 1..MaxResbuf.
MaxResbuf == 2
\* A port specification is made of 1..MaxTokens tokens of TokenPool.
MaxTokens == 3

VARIABLES
    \* ---- scan engine (main, worker)
    plan,           \* main: plan []int, the ports to probe
    workers,        \* main: *workers
    resbuf,         \* main: *resbuf
    reachable,      \* the network: the ports on which DialTimeout succeeds
    ports,          \* main: ports chan int, the buffered content
    portsClosed,    \* close(ports) has happened
    results,        \* main: results chan int, the buffered content
    resultsClosed,  \* close(results) has happened
    wg,             \* main: the WaitGroup's counter
    mainPc,         \* main's position
    launched,       \* main: i of the launch loop, the workers started
    feedPc,         \* the feeder goroutine's position
    feedIdx,        \* the feeder: the index into plan of its range loop
    supPc,          \* the supervisor goroutine's position
    wpc,            \* each worker's position
    wport,          \* each worker's p
    openPorts,      \* main: openPorts []int
    panicked,       \* a send on a closed channel has panicked
    takeCount,      \* history: the receptions from the ports channel per port
    probeCount,     \* history: the calls of scanPort per port
    \* ---- port specification expander (expandPortSpec)
    spec,           \* expandPortSpec: the argument, a string as its characters
    expPc,          \* the call's position: "call" before it, "ret" after it
    expRes,         \* expandPortSpec: the returned ([]int, error)
    \* ---- the flags of main
    startFlag,      \* main: *start
    endFlag,        \* main: *end
    portspec        \* main: *portspec, a string as its characters

engineVars == <<plan, workers, resbuf, reachable, ports, portsClosed, results,
                resultsClosed, wg, mainPc, launched, feedPc, feedIdx, supPc,
                wpc, wport, openPorts, panicked, takeCount, probeCount>>

expVars == <<spec, expPc, expRes>>

flagVars == <<startFlag, endFlag, portspec>>

vars == <<engineVars, expVars, flagVars>>

\* ----------------------------------------------------------------- helpers

Range(s) == {s[i] : i \in 1..Len(s)}

IsAscending(s) == \A i \in 1..(Len(s) - 1) : s[i] < s[i + 1]

\* sort.Ints: insertion of each element into the sorted prefix
RECURSIVE Insert(_, _)
Insert(x, s) ==
    IF s = <<>> THEN <<x>>
    ELSE IF x <= Head(s) THEN <<x>> \o s
    ELSE <<Head(s)>> \o Insert(x, Tail(s))

\* Mutant of SortInts: the sort left out
SortIntsOmitted(s) == s

RECURSIVE SortInts(_)
SortInts(s) == IF s = <<>> THEN <<>> ELSE Insert(Head(s), SortInts(Tail(s)))

\* The ascending sequence of a set of integers
RECURSIVE AscendingOf(_)
AscendingOf(S) ==
    IF S = {} THEN <<>>
    ELSE LET m == CHOOSE x \in S : \A y \in S : x <= y
         IN <<m>> \o AscendingOf(S \ {m})

\* Mutant of scanPort: the dial error ignored
scanPortAlways(p) == TRUE

\* scanPort: DialTimeout succeeds exactly on the reachable ports
scanPort(p) == p \in reachable

\* ------------------------------------------- strings (strings, strconv)

\* A Go string is modelled as the sequence of its characters.
Digits == <<"0", "1", "2", "3", "4", "5", "6", "7", "8", "9">>

IsDigit(c) == \E d \in 1..10 : Digits[d] = c

DigitVal(c) == (CHOOSE d \in 1..10 : Digits[d] = c) - 1

\* unicode.IsSpace on the characters a flag value holds
IsSpace(c) == c \in {" ", "\t", "\n", "\r"}

\* strings.TrimSpace
RECURSIVE TrimLeft(_)
TrimLeft(s) ==
    IF s # <<>> /\ IsSpace(Head(s)) THEN TrimLeft(Tail(s)) ELSE s

RECURSIVE TrimRight(_)
TrimRight(s) ==
    IF s # <<>> /\ IsSpace(s[Len(s)])
    THEN TrimRight(SubSeq(s, 1, Len(s) - 1))
    ELSE s

TrimSpace(s) == TrimRight(TrimLeft(s))

\* strings.Contains(s, c) for a one-character c
Contains(s, c) == \E i \in 1..Len(s) : s[i] = c

\* The index of the first c in s, 0 when there is none (strings.Index + 1)
IndexOf(s, c) ==
    IF Contains(s, c)
    THEN CHOOSE i \in 1..Len(s) : s[i] = c /\ \A j \in 1..(i - 1) : s[j] # c
    ELSE 0

\* strings.Split(s, c): the substrings between the separators, one more than
\* there are separators
RECURSIVE Split(_, _)
Split(s, c) ==
    LET i == IndexOf(s, c)
    IN IF i = 0 THEN <<s>>
       ELSE <<SubSeq(s, 1, i - 1)>> \o Split(SubSeq(s, i + 1, Len(s)), c)

\* Mutant of SplitN2: every separator cuts, the first two parts are kept
SplitKeepsTwo(s, c) ==
    LET parts == Split(s, c)
    IN IF Len(parts) = 1 THEN parts ELSE <<parts[1], parts[2]>>

\* strings.SplitN(s, c, 2): cut at the first separator only
SplitN2(s, c) ==
    LET i == IndexOf(s, c)
    IN IF i = 0 THEN <<s>>
       ELSE <<SubSeq(s, 1, i - 1), SubSeq(s, i + 1, Len(s))>>

\* The largest port number, of the bounds test of parseSinglePort
MaxPortNum == 65535

\* The value of a run of decimal digits. A value above MaxPortNum is kept as
\* MaxPortNum + 1: parseSinglePort rejects every such value, be it as out of
\* range or, beyond the width of int, as Atoi's range error.
RECURSIVE DigitsValue(_, _)
DigitsValue(s, acc) ==
    IF s = <<>> THEN acc
    ELSE LET n == acc * 10 + DigitVal(Head(s))
         IN DigitsValue(Tail(s), IF n > MaxPortNum THEN MaxPortNum + 1 ELSE n)

\* strconv.Atoi: an optional sign and at least one decimal digit
Atoi(s) ==
    LET signed == s # <<>> /\ Head(s) \in {"+", "-"}
        body == IF signed THEN Tail(s) ELSE s
        v == DigitsValue(body, 0)
    IN IF body = <<>> \/ \E i \in 1..Len(body) : ~IsDigit(body[i])
       THEN [n |-> 0, ok |-> FALSE]
       ELSE [n |-> IF signed /\ Head(s) = "-" THEN 0 - v ELSE v, ok |-> TRUE]

\* strconv.Itoa
RECURSIVE Itoa(_)
Itoa(n) ==
    IF n < 10 THEN <<Digits[n + 1]>>
    ELSE Itoa(n \div 10) \o <<Digits[(n % 10) + 1]>>

\* strings.Join
RECURSIVE Join(_, _)
Join(ss, sep) ==
    IF ss = <<>> THEN <<>>
    ELSE IF Len(ss) = 1 THEN ss[1]
    ELSE ss[1] \o sep \o Join(Tail(ss), sep)

\* -------------------------------------------------- port spec expander

\* The nil error and the nil slice; an error is the chain of its messages,
\* the wrapped error (%w) last
NoErr == <<>>
Nil == <<>>

\* Mutant of parseSinglePort: the bounds test admits 0 and 65536
parseSinglePortWide(token) ==
    LET t == TrimSpace(token)
        a == Atoi(t)
    IN IF t = <<>> THEN [n |-> 0, err |-> <<"empty port token">>]
       ELSE IF ~a.ok THEN [n |-> 0, err |-> <<"invalid port">>]
       ELSE IF a.n >= 0 /\ a.n <= MaxPortNum + 1 THEN [n |-> a.n, err |-> NoErr]
       ELSE [n |-> 0, err |-> <<"port out of range">>]

parseSinglePort(token) ==
    LET t == TrimSpace(token)
        a == Atoi(t)
    IN IF t = <<>> THEN [n |-> 0, err |-> <<"empty port token">>]
       ELSE IF ~a.ok THEN [n |-> 0, err |-> <<"invalid port">>]
       ELSE IF a.n >= 1 /\ a.n <= MaxPortNum THEN [n |-> a.n, err |-> NoErr]
       ELSE [n |-> 0, err |-> <<"port out of range">>]

RangeErr(e) == [start |-> 0, end |-> 0, err |-> e]

\* Mutant of parsePortRange: the start > end test left out
parsePortRangeUnordered(token) ==
    LET t == TrimSpace(token)
        parts == SplitN2(t, "-")
        left == TrimSpace(parts[1])
        right == TrimSpace(parts[2])
        s == parseSinglePort(left)
        e == parseSinglePort(right)
    IN IF t = <<>> THEN RangeErr(<<"empty range token">>)
       ELSE IF Len(parts) # 2 THEN RangeErr(<<"invalid range (need A-B)">>)
       ELSE IF left = <<>> \/ right = <<>> THEN RangeErr(<<"invalid range bounds">>)
       ELSE IF s.err # NoErr THEN RangeErr(<<"invalid left bound">> \o s.err)
       ELSE IF e.err # NoErr THEN RangeErr(<<"invalid right bound">> \o e.err)
       ELSE [start |-> s.n, end |-> e.n, err |-> NoErr]

parsePortRange(token) ==
    LET t == TrimSpace(token)
        parts == SplitN2(t, "-")
        left == TrimSpace(parts[1])
        right == TrimSpace(parts[2])
        s == parseSinglePort(left)
        e == parseSinglePort(right)
    IN IF t = <<>> THEN RangeErr(<<"empty range token">>)
       ELSE IF Len(parts) # 2 THEN RangeErr(<<"invalid range (need A-B)">>)
       ELSE IF left = <<>> \/ right = <<>> THEN RangeErr(<<"invalid range bounds">>)
       ELSE IF s.err # NoErr THEN RangeErr(<<"invalid left bound">> \o s.err)
       ELSE IF e.err # NoErr THEN RangeErr(<<"invalid right bound">> \o e.err)
       ELSE IF s.n > e.n THEN RangeErr(<<"range start > end">>)
       ELSE [start |-> s.n, end |-> e.n, err |-> NoErr]

\* Mutant of ParseToken: an empty token is skipped instead of refused
ParseTokenSkipsEmpty(tok) ==
    LET t == TrimSpace(tok)
    IN IF t = <<>> THEN [kind |-> "skip", a |-> 0, b |-> 0, err |-> NoErr]
       ELSE IF Contains(t, "-")
       THEN LET r == parsePortRange(t)
            IN [kind |-> "range", a |-> r.start, b |-> r.end,
                err |-> IF r.err = NoErr THEN NoErr ELSE <<"invalid range">> \o r.err]
       ELSE LET r == parseSinglePort(t)
            IN [kind |-> "single", a |-> r.n, b |-> r.n,
                err |-> IF r.err = NoErr THEN NoErr ELSE <<"invalid port">> \o r.err]

\* expandPortSpec: the body of the loop over the tokens, for one token
ParseToken(tok) ==
    LET t == TrimSpace(tok)
    IN IF t = <<>> THEN [kind |-> "none", a |-> 0, b |-> 0, err |-> <<"empty token">>]
       ELSE IF Contains(t, "-")
       THEN LET r == parsePortRange(t)
            IN [kind |-> "range", a |-> r.start, b |-> r.end,
                err |-> IF r.err = NoErr THEN NoErr ELSE <<"invalid range">> \o r.err]
       ELSE LET r == parseSinglePort(t)
            IN [kind |-> "single", a |-> r.n, b |-> r.n,
                err |-> IF r.err = NoErr THEN NoErr ELSE <<"invalid port">> \o r.err]

\* Mutant of RangePorts: the loop stops before the end bound
RangePortsExclusive(start, end) == start..(end - 1)

\* expandPortSpec: for p := start; p <= end; p++ { seen[p] = struct{}{} }
RangePorts(start, end) == start..end

\* expandPortSpec: the keys of seen after the singles and the ranges went in
SeenOf(singles, ranges) ==
    Range(singles) \cup UNION {RangePorts(r[1], r[2]) : r \in Range(ranges)}

\* for p := range seen: Go leaves the order of a map's keys open. The orders
\* drawn are the rotations of the ascending one, by seed.
MapKeys(seen, seed) ==
    LET asc == AscendingOf(seen)
        n == Len(asc)
    IN [i \in 1..n |-> asc[((i - 1 + seed) % n) + 1]]

RECURSIVE Flatten(_)
Flatten(ss) == IF ss = <<>> THEN <<>> ELSE Head(ss) \o Flatten(Tail(ss))

\* Mutant of PortsOf: the ports listed as they appear, no set and no sort
PortsOfAppended(singles, ranges, seed) ==
    singles \o
    Flatten([i \in 1..Len(ranges) |->
                [k \in 1..(ranges[i][2] - ranges[i][1] + 1) |->
                    ranges[i][1] + k - 1]])

\* expandPortSpec: the seen set, its keys collected and sorted
PortsOf(singles, ranges, seed) ==
    SortInts(MapKeys(SeenOf(singles, ranges), seed))

IsSingle(t) == t.kind = "single"
IsRange(t) == t.kind = "range"

expandPortSpec(str, seed) ==
    LET s == TrimSpace(str)
        tokens == Split(s, ",")
        parsed == [i \in 1..Len(tokens) |-> ParseToken(tokens[i])]
        bad == {i \in 1..Len(tokens) : parsed[i].err # NoErr}
        first == CHOOSE i \in bad : \A j \in bad : i <= j
        ss == SelectSeq(parsed, IsSingle)
        rs == SelectSeq(parsed, IsRange)
        singles == [i \in 1..Len(ss) |-> ss[i].a]
        ranges == [i \in 1..Len(rs) |-> <<rs[i].a, rs[i].b>>]
    IN IF s = <<>> THEN [ports |-> Nil, err |-> <<"empty ports spec">>]
       ELSE IF bad # {} THEN [ports |-> Nil, err |-> parsed[first].err]
       ELSE [ports |-> PortsOf(singles, ranges, seed), err |-> NoErr]

\* ------------------------------------------------------------- scan engine

\* The plans main can build: ascending and duplicate-free (the output of
\* expandPortSpec, or start..end), the empty plan included.
Plans == {AscendingOf(S) : S \in SUBSET (1..MaxPort)}

EngineInit ==
    /\ plan \in Plans
    /\ workers \in 1..MaxWorkers
    /\ resbuf \in 1..MaxResbuf
    /\ reachable \in SUBSET (1..MaxPort)
    /\ ports = <<>>
    /\ portsClosed = FALSE
    /\ results = <<>>
    /\ resultsClosed = FALSE
    /\ wg = workers
    /\ mainPc = "launch"
    /\ launched = 0
    /\ feedPc = "idle"
    /\ feedIdx = 1
    /\ supPc = "idle"
    /\ wpc = [w \in 1..workers |-> "idle"]
    /\ wport = [w \in 1..workers |-> 0]
    /\ openPorts = <<>>
    /\ panicked = FALSE
    /\ takeCount = [p \in 1..MaxPort |-> 0]
    /\ probeCount = [p \in 1..MaxPort |-> 0]
    /\ spec = <<>>
    /\ expPc = "idle"
    /\ expRes = [ports |-> Nil, err |-> NoErr]
    /\ startFlag = 1
    /\ endFlag = 1024
    /\ portspec = <<>>

\* main: go worker(...), one turn of the launch loop
LaunchWorker ==
    /\ mainPc = "launch"
    /\ launched < workers
    /\ launched' = launched + 1
    /\ wpc' = [wpc EXCEPT ![launched + 1] = "recv"]
    /\ UNCHANGED <<plan, workers, resbuf, reachable, ports, portsClosed,
                   results, resultsClosed, wg, mainPc, feedPc, feedIdx, supPc,
                   wport, openPorts, panicked, takeCount, probeCount>>
    /\ UNCHANGED expVars
    /\ UNCHANGED flagVars

\* main: go func() { wg.Wait(); close(results) }()
LaunchSupervisor ==
    /\ mainPc = "launch"
    /\ launched = workers
    /\ supPc' = "wait"
    /\ mainPc' = "goFeeder"
    /\ UNCHANGED <<plan, workers, resbuf, reachable, ports, portsClosed,
                   results, resultsClosed, wg, launched, feedPc, feedIdx,
                   wpc, wport, openPorts, panicked, takeCount, probeCount>>
    /\ UNCHANGED expVars
    /\ UNCHANGED flagVars

\* Mutant of LaunchFeeder: main goes on to drain without the feeder
LaunchFeederForgotten ==
    /\ mainPc = "goFeeder"
    /\ mainPc' = "drain"
    /\ UNCHANGED <<plan, workers, resbuf, reachable, ports, portsClosed,
                   results, resultsClosed, wg, launched, feedPc, feedIdx,
                   supPc, wpc, wport, openPorts, panicked, takeCount,
                   probeCount>>
    /\ UNCHANGED expVars
    /\ UNCHANGED flagVars

\* main: go func() { for _, p := range plan { ports <- p }; close(ports) }()
LaunchFeeder ==
    /\ mainPc = "goFeeder"
    /\ feedPc' = "send"
    /\ mainPc' = "drain"
    /\ UNCHANGED <<plan, workers, resbuf, reachable, ports, portsClosed,
                   results, resultsClosed, wg, launched, feedIdx, supPc,
                   wpc, wport, openPorts, panicked, takeCount, probeCount>>
    /\ UNCHANGED expVars
    /\ UNCHANGED flagVars

\* Mutant of FeederSend: the send never waits for room in the channel
FeederSendUnbounded ==
    /\ feedPc = "send"
    /\ feedIdx <= Len(plan)
    /\ ports' = Append(ports, plan[feedIdx])
    /\ feedIdx' = feedIdx + 1
    /\ UNCHANGED <<plan, workers, resbuf, reachable, portsClosed, results,
                   resultsClosed, wg, mainPc, launched, feedPc, supPc, wpc,
                   wport, openPorts, panicked, takeCount, probeCount>>
    /\ UNCHANGED expVars
    /\ UNCHANGED flagVars

\* feeder: ports <- p, which blocks while the channel holds cap(ports) = workers
FeederSend ==
    /\ feedPc = "send"
    /\ feedIdx <= Len(plan)
    /\ Len(ports) < workers
    /\ ports' = Append(ports, plan[feedIdx])
    /\ feedIdx' = feedIdx + 1
    /\ UNCHANGED <<plan, workers, resbuf, reachable, portsClosed, results,
                   resultsClosed, wg, mainPc, launched, feedPc, supPc, wpc,
                   wport, openPorts, panicked, takeCount, probeCount>>
    /\ UNCHANGED expVars
    /\ UNCHANGED flagVars

\* Mutant of FeederClose: close(ports) follows the last send inside the loop
FeederCloseAfterLast ==
    /\ feedPc = "send"
    /\ feedIdx > Len(plan)
    /\ Len(plan) >= 1
    /\ portsClosed' = TRUE
    /\ feedPc' = "done"
    /\ UNCHANGED <<plan, workers, resbuf, reachable, ports, results,
                   resultsClosed, wg, mainPc, launched, feedIdx, supPc, wpc,
                   wport, openPorts, panicked, takeCount, probeCount>>
    /\ UNCHANGED expVars
    /\ UNCHANGED flagVars

\* Mutant of FeederClose: the feeder returns without close(ports)
FeederCloseOmitted ==
    /\ feedPc = "send"
    /\ feedIdx > Len(plan)
    /\ feedPc' = "done"
    /\ UNCHANGED <<plan, workers, resbuf, reachable, ports, portsClosed,
                   results, resultsClosed, wg, mainPc, launched, feedIdx,
                   supPc, wpc, wport, openPorts, panicked, takeCount,
                   probeCount>>
    /\ UNCHANGED expVars
    /\ UNCHANGED flagVars

\* feeder: close(ports) after the range loop
FeederClose ==
    /\ feedPc = "send"
    /\ feedIdx > Len(plan)
    /\ portsClosed' = TRUE
    /\ feedPc' = "done"
    /\ UNCHANGED <<plan, workers, resbuf, reachable, ports, results,
                   resultsClosed, wg, mainPc, launched, feedIdx, supPc, wpc,
                   wport, openPorts, panicked, takeCount, probeCount>>
    /\ UNCHANGED expVars
    /\ UNCHANGED flagVars

\* Mutant of WorkerRecv: the port read but left in the channel
WorkerRecvKeeps(w) ==
    /\ wpc[w] = "recv"
    /\ ports # <<>>
    /\ wport' = [wport EXCEPT ![w] = Head(ports)]
    /\ wpc' = [wpc EXCEPT ![w] = "probe"]
    /\ takeCount' = [takeCount EXCEPT ![Head(ports)] = @ + 1]
    /\ UNCHANGED <<plan, workers, resbuf, reachable, ports, portsClosed,
                   results, resultsClosed, wg, mainPc, launched, feedPc,
                   feedIdx, supPc, openPorts, panicked, probeCount>>
    /\ UNCHANGED expVars
    /\ UNCHANGED flagVars

\* worker: for p := range ports, a port received
WorkerRecv(w) ==
    /\ wpc[w] = "recv"
    /\ ports # <<>>
    /\ wport' = [wport EXCEPT ![w] = Head(ports)]
    /\ ports' = Tail(ports)
    /\ wpc' = [wpc EXCEPT ![w] = "probe"]
    /\ takeCount' = [takeCount EXCEPT ![Head(ports)] = @ + 1]
    /\ UNCHANGED <<plan, workers, resbuf, reachable, portsClosed, results,
                   resultsClosed, wg, mainPc, launched, feedPc, feedIdx, supPc,
                   openPorts, panicked, probeCount>>
    /\ UNCHANGED expVars
    /\ UNCHANGED flagVars

\* Mutant of WorkerExit: the worker leaves on an empty channel, closed or not
WorkerExitOnEmpty(w) ==
    /\ wpc[w] = "recv"
    /\ ports = <<>>
    /\ wpc' = [wpc EXCEPT ![w] = "done"]
    /\ wg' = wg - 1
    /\ UNCHANGED <<plan, workers, resbuf, reachable, ports, portsClosed,
                   results, resultsClosed, mainPc, launched, feedPc, feedIdx,
                   supPc, wport, openPorts, panicked, takeCount, probeCount>>
    /\ UNCHANGED expVars
    /\ UNCHANGED flagVars

\* worker: the range loop ends on the closed, empty channel; defer wg.Done()
WorkerExit(w) ==
    /\ wpc[w] = "recv"
    /\ ports = <<>>
    /\ portsClosed
    /\ wpc' = [wpc EXCEPT ![w] = "done"]
    /\ wg' = wg - 1
    /\ UNCHANGED <<plan, workers, resbuf, reachable, ports, portsClosed,
                   results, resultsClosed, mainPc, launched, feedPc, feedIdx,
                   supPc, wport, openPorts, panicked, takeCount, probeCount>>
    /\ UNCHANGED expVars
    /\ UNCHANGED flagVars

\* worker: if scanPort(host, p, timeout) { ... }
WorkerProbe(w) ==
    /\ wpc[w] = "probe"
    /\ probeCount' = [probeCount EXCEPT ![wport[w]] = @ + 1]
    /\ wpc' = [wpc EXCEPT ![w] = IF scanPort(wport[w]) THEN "send" ELSE "recv"]
    /\ UNCHANGED <<plan, workers, resbuf, reachable, ports, portsClosed,
                   results, resultsClosed, wg, mainPc, launched, feedPc,
                   feedIdx, supPc, wport, openPorts, panicked, takeCount>>
    /\ UNCHANGED expVars
    /\ UNCHANGED flagVars

\* worker: results <- p, which blocks while the channel holds cap(results) and
\* panics on a closed channel
WorkerSend(w) ==
    /\ wpc[w] = "send"
    /\ ~panicked
    /\ IF resultsClosed
       THEN /\ panicked' = TRUE
            /\ UNCHANGED <<results, wpc>>
       ELSE /\ Len(results) < resbuf
            /\ results' = Append(results, wport[w])
            /\ wpc' = [wpc EXCEPT ![w] = "recv"]
            /\ UNCHANGED panicked
    /\ UNCHANGED <<plan, workers, resbuf, reachable, ports, portsClosed,
                   resultsClosed, wg, mainPc, launched, feedPc, feedIdx, supPc,
                   wport, openPorts, takeCount, probeCount>>
    /\ UNCHANGED expVars
    /\ UNCHANGED flagVars

\* Mutant of SupervisorClose: close(results) without wg.Wait()
SupervisorCloseNoWait ==
    /\ supPc = "wait"
    /\ resultsClosed' = TRUE
    /\ supPc' = "done"
    /\ UNCHANGED <<plan, workers, resbuf, reachable, ports, portsClosed,
                   results, wg, mainPc, launched, feedPc, feedIdx, wpc, wport,
                   openPorts, panicked, takeCount, probeCount>>
    /\ UNCHANGED expVars
    /\ UNCHANGED flagVars

\* supervisor: wg.Wait() returns at counter 0, then close(results)
SupervisorClose ==
    /\ supPc = "wait"
    /\ wg = 0
    /\ resultsClosed' = TRUE
    /\ supPc' = "done"
    /\ UNCHANGED <<plan, workers, resbuf, reachable, ports, portsClosed,
                   results, wg, mainPc, launched, feedPc, feedIdx, wpc, wport,
                   openPorts, panicked, takeCount, probeCount>>
    /\ UNCHANGED expVars
    /\ UNCHANGED flagVars

\* main: for p := range results { openPorts = append(openPorts, p) }
MainDrain ==
    /\ mainPc = "drain"
    /\ results # <<>>
    /\ openPorts' = Append(openPorts, Head(results))
    /\ results' = Tail(results)
    /\ UNCHANGED <<plan, workers, resbuf, reachable, ports, portsClosed,
                   resultsClosed, wg, mainPc, launched, feedPc, feedIdx, supPc,
                   wpc, wport, panicked, takeCount, probeCount>>
    /\ UNCHANGED expVars
    /\ UNCHANGED flagVars

\* Mutant of MainFinish: the ports returned in their order of arrival
MainFinishUnsorted ==
    /\ mainPc = "drain"
    /\ results = <<>>
    /\ resultsClosed
    /\ mainPc' = "done"
    /\ UNCHANGED <<plan, workers, resbuf, reachable, ports, portsClosed,
                   results, resultsClosed, wg, launched, feedPc, feedIdx,
                   supPc, wpc, wport, openPorts, panicked, takeCount,
                   probeCount>>
    /\ UNCHANGED expVars
    /\ UNCHANGED flagVars

\* main: the drain loop ends on the closed, empty channel; sort.Ints(openPorts)
MainFinish ==
    /\ mainPc = "drain"
    /\ results = <<>>
    /\ resultsClosed
    /\ openPorts' = SortInts(openPorts)
    /\ mainPc' = "done"
    /\ UNCHANGED <<plan, workers, resbuf, reachable, ports, portsClosed,
                   results, resultsClosed, wg, launched, feedPc, feedIdx,
                   supPc, wpc, wport, panicked, takeCount, probeCount>>
    /\ UNCHANGED expVars
    /\ UNCHANGED flagVars

Init == EngineInit

Next ==
    \/ LaunchWorker
    \/ LaunchSupervisor
    \/ LaunchFeeder
    \/ FeederSend
    \/ FeederClose
    \/ \E w \in 1..workers : WorkerRecv(w)
    \/ \E w \in 1..workers : WorkerExit(w)
    \/ \E w \in 1..workers : WorkerProbe(w)
    \/ \E w \in 1..workers : WorkerSend(w)
    \/ SupervisorClose
    \/ MainDrain
    \/ MainFinish

Spec == Init /\ [][Next]_vars

\* The Go scheduler runs a goroutine that can run: some enabled step is taken.
FairSpec == Spec /\ WF_vars(Next)

\* ------------------------------------------ the calls of expandPortSpec

\* The tokens the port specifications are made of: single ports, ranges,
\* padded, empty, out of range, signed, not numbers, and with stray hyphens.
TokenPool ==
    { <<"1">>,
      <<" ", "2", " ">>,
      <<"1", "-", "3">>,
      <<"2", " ", "-", " ", "2">>,
      <<"3", "-", "1">>,
      <<>>,
      <<" ">>,
      <<"0">>,
      <<"6", "5", "5", "3", "5">>,
      <<"6", "5", "5", "3", "6">>,
      <<"1", "-">>,
      <<"-", "1">>,
      <<"1", "-", "2", "-", "3">>,
      <<"+", "2">>,
      <<"x">> }

\* The -ports values tried: the pool's tokens joined by commas
InputSpecs ==
    {Join(ts, <<",">>) :
        ts \in UNION {[1..k -> TokenPool] : k \in 1..MaxTokens}}

\* The starts of a map iteration that are drawn: the least key and the next
Seeds == {0, 1}

ExpandInit ==
    /\ spec \in InputSpecs
    /\ expPc = "call"
    /\ expRes = [ports |-> Nil, err |-> NoErr]
    /\ startFlag = 1
    /\ endFlag = 1024
    /\ portspec = spec
    /\ plan = <<>>
    /\ workers = 1
    /\ resbuf = 1
    /\ reachable = {}
    /\ ports = <<>>
    /\ portsClosed = FALSE
    /\ results = <<>>
    /\ resultsClosed = FALSE
    /\ wg = 0
    /\ mainPc = "expand"
    /\ launched = 0
    /\ feedPc = "idle"
    /\ feedIdx = 1
    /\ supPc = "idle"
    /\ wpc = [w \in 1..workers |-> "idle"]
    /\ wport = [w \in 1..workers |-> 0]
    /\ openPorts = <<>>
    /\ panicked = FALSE
    /\ takeCount = [p \in 1..MaxPort |-> 0]
    /\ probeCount = [p \in 1..MaxPort |-> 0]

\* ps, err := expandPortSpec(*portspec)
Expand ==
    /\ expPc = "call"
    /\ \E seed \in Seeds : expRes' = expandPortSpec(spec, seed)
    /\ expPc' = "ret"
    /\ UNCHANGED spec
    /\ UNCHANGED engineVars
    /\ UNCHANGED flagVars

ExpandNext == Expand

SpecExpand == ExpandInit /\ [][ExpandNext]_vars

\* ------------------------------------------------ main: flags and plan

\* Mutant of FlagsOk: the test of -resbuf left out
FlagsOkNoResbuf(s, e, w, r) ==
    /\ ~(s < 1 \/ s > MaxPortNum)
    /\ ~(e < 1 \/ e > MaxPortNum)
    /\ ~(s > e)
    /\ ~(w <= 0)

\* main: the five tests of the flags, none of which calls log.Fatalf
FlagsOk(s, e, w, r) ==
    /\ ~(s < 1 \/ s > MaxPortNum)
    /\ ~(e < 1 \/ e > MaxPortNum)
    /\ ~(s > e)
    /\ ~(w <= 0)
    /\ ~(r < 1)

\* Mutant of Validate: -start and -end are tested only when -ports is empty
ValidateSkipsBounds ==
    /\ mainPc = "validate"
    /\ mainPc' = IF /\ (portspec # <<>> \/ FlagsOk(startFlag, endFlag, 1, 1))
                    /\ FlagsOk(1, 1, workers, resbuf)
                 THEN "plan" ELSE "fatal"
    /\ UNCHANGED <<plan, workers, resbuf, reachable, ports, portsClosed,
                   results, resultsClosed, wg, launched, feedPc, feedIdx,
                   supPc, wpc, wport, openPorts, panicked, takeCount,
                   probeCount>>
    /\ UNCHANGED expVars
    /\ UNCHANGED flagVars

\* main: the tests of the flags after flag.Parse(); log.Fatalf ends the run
Validate ==
    /\ mainPc = "validate"
    /\ mainPc' = IF FlagsOk(startFlag, endFlag, workers, resbuf)
                 THEN "plan" ELSE "fatal"
    /\ UNCHANGED <<plan, workers, resbuf, reachable, ports, portsClosed,
                   results, resultsClosed, wg, launched, feedPc, feedIdx,
                   supPc, wpc, wport, openPorts, panicked, takeCount,
                   probeCount>>
    /\ UNCHANGED expVars
    /\ UNCHANGED flagVars

\* Mutant of RangePlan: the loop stops before the end port
RangePlanExclusive(s, e) == [i \in 1..(e - s) |-> s + i - 1]

\* main: for p := *start; p <= *end; p++ { plan = append(plan, p) }
RangePlan(s, e) == [i \in 1..(e - s + 1) |-> s + i - 1]

\* main: if *portspec != "", the call of expandPortSpec, which Expand runs
CallExpand ==
    /\ mainPc = "plan"
    /\ portspec # <<>>
    /\ spec' = portspec
    /\ expPc' = "call"
    /\ mainPc' = "expand"
    /\ UNCHANGED <<plan, workers, resbuf, reachable, ports, portsClosed,
                   results, resultsClosed, wg, launched, feedPc, feedIdx,
                   supPc, wpc, wport, openPorts, panicked, takeCount,
                   probeCount>>
    /\ UNCHANGED expRes
    /\ UNCHANGED flagVars

\* main: the plan, from the ports expandPortSpec returned (log.Fatalf on its
\* error) or, with no -ports, from -start and -end; then the channels and
\* wg.Add(*workers)
BuildPlan ==
    /\ \/ /\ mainPc = "expand"
          /\ expPc = "ret"
          /\ IF expRes.err # NoErr
             THEN /\ mainPc' = "fatal"
                  /\ UNCHANGED <<plan, wg>>
             ELSE /\ mainPc' = "launch"
                  /\ plan' = expRes.ports
                  /\ wg' = workers
       \/ /\ mainPc = "plan"
          /\ portspec = <<>>
          /\ plan' = RangePlan(startFlag, endFlag)
          /\ mainPc' = "launch"
          /\ wg' = workers
    /\ UNCHANGED <<workers, resbuf, reachable, ports, portsClosed, results,
                   resultsClosed, launched, feedPc, feedIdx, supPc, wpc,
                   wport, openPorts, panicked, takeCount, probeCount>>
    /\ UNCHANGED expVars
    /\ UNCHANGED flagVars

\* The values of -start and -end tried: 0, the ports of the engine's bound,
\* and the first value above the largest port
FlagPorts == {0} \cup (1..MaxPort) \cup {MaxPortNum + 1}

\* The values of -ports tried: none, a padded port, a range, an inverted
\* range and a spec with an empty token
MainPortSpecs ==
    { <<>>,
      <<" ", "2", " ">>,
      <<"1", "-", "3">>,
      <<"3", "-", "1">>,
      <<"1", ",", ",", "2">> }

\* The networks tried: nothing reachable, one port, every port
MainReachables == {{}, {2}, 1..MaxPort}

MainInit ==
    /\ startFlag \in FlagPorts
    /\ endFlag \in FlagPorts
    /\ workers \in 0..MaxWorkers
    /\ resbuf \in 0..MaxResbuf
    /\ portspec \in MainPortSpecs
    /\ reachable \in MainReachables
    /\ mainPc = "validate"
    /\ plan = <<>>
    /\ ports = <<>>
    /\ portsClosed = FALSE
    /\ results = <<>>
    /\ resultsClosed = FALSE
    /\ wg = 0
    /\ launched = 0
    /\ feedPc = "idle"
    /\ feedIdx = 1
    /\ supPc = "idle"
    /\ wpc = [w \in 1..workers |-> "idle"]
    /\ wport = [w \in 1..workers |-> 0]
    /\ openPorts = <<>>
    /\ panicked = FALSE
    /\ takeCount = [p \in 1..MaxPort |-> 0]
    /\ probeCount = [p \in 1..MaxPort |-> 0]
    /\ spec = <<>>
    /\ expPc = "idle"
    /\ expRes = [ports |-> Nil, err |-> NoErr]

MainNext ==
    \/ Validate
    \/ CallExpand
    \/ Expand
    \/ BuildPlan
    \/ Next

SpecMain == MainInit /\ [][MainNext]_vars

\* ------------------------------------------------- claims: the scan engine

\* Every goroutine of the scan has ended and both channels are closed.
ScanDone ==
    /\ mainPc = "done"
    /\ feedPc = "done"
    /\ supPc = "done"
    /\ portsClosed
    /\ resultsClosed
    /\ \A w \in 1..workers : wpc[w] = "done"

RECURSIVE SumOver(_, _)
SumOver(f, S) ==
    IF S = {} THEN 0
    ELSE LET x == CHOOSE y \in S : TRUE IN f[x] + SumOver(f, S \ {x})

\* C1: when the scan has returned, the open-port list is the ascending,
\* duplicate-free sequence of exactly the plan ports whose probe succeeds,
\* whatever the worker count, the results buffer and the interleaving.
C1_ScanResult ==
    mainPc = "done" =>
        /\ openPorts = AscendingOf(Range(plan) \cap reachable)
        /\ IsAscending(openPorts)
        /\ Range(openPorts) = {p \in Range(plan) : p \in reachable}

\* C1 witness: a finished scan by two workers through a one-slot results
\* buffer that found several open ports and skipped a closed one.
C1_Witness ==
    /\ mainPc = "done"
    /\ workers >= 2
    /\ resbuf = 1
    /\ Len(openPorts) >= 2
    /\ Range(plan) \ reachable # {}

\* C2: every port in the results stream or in the accumulator is a port of
\* the plan that was probed and whose probe succeeded.
C2_NoExtraneousPort ==
    \A p \in Range(results) \cup Range(openPorts) :
        /\ p \in Range(plan)
        /\ p \in reachable
        /\ probeCount[p] >= 1

\* C2 witness: a port in the results stream and another in the accumulator
\* while the plan also holds a port that is not reachable.
C2_Witness ==
    /\ results # <<>>
    /\ openPorts # <<>>
    /\ Range(plan) \ reachable # {}
    /\ \E p \in Range(plan) \ reachable : probeCount[p] = 1

\* C3: no port is taken from the queue or probed twice, and when the scan has
\* returned every plan port was taken and probed exactly once and no other
\* port was: the number of probes equals the target count.
C3_ProbedExactlyOnce ==
    /\ \A p \in 1..MaxPort : takeCount[p] <= 1 /\ probeCount[p] <= takeCount[p]
    /\ mainPc = "done" =>
        /\ \A p \in 1..MaxPort :
            /\ takeCount[p] = (IF p \in Range(plan) THEN 1 ELSE 0)
            /\ probeCount[p] = takeCount[p]
        /\ SumOver(probeCount, 1..MaxPort) = Len(plan)

\* C3 witness: a finished scan of a non-empty plan by more workers than the
\* plan has ports.
C3_Witness ==
    /\ mainPc = "done"
    /\ Len(plan) >= 1
    /\ workers > Len(plan)
    /\ SumOver(probeCount, 1..MaxPort) = Len(plan)

\* C4: under fair scheduling every scan reaches the state in which the feeder
\* has closed the queue, every worker has ended, the results stream is closed
\* and the drain loop has ended; and no state before that one is a deadlock.
C4_RunsToCompletion == <>ScanDone /\ [](ScanDone \/ ENABLED Next)

\* C4 witness: a completed scan through a one-slot results buffer that
\* reported more open ports than the buffer has slots.
C4_Witness ==
    /\ ScanDone
    /\ resbuf = 1
    /\ Len(openPorts) > resbuf
    /\ workers >= 2

\* ---------------------------------------------- claims: the port expander

\* The reading of a port specification that the claims are stated in: its
\* comma-separated tokens, the decimal numbers in them and the ports a
\* well-formed token stands for.
TokensOf(str) == Split(str, ",")

Returned == expPc = "ret"

Failed == expRes.err # NoErr

IsNumber(v) == v # <<>> /\ \A i \in 1..Len(v) : IsDigit(v[i])

RECURSIVE Decimal(_)
Decimal(v) ==
    IF v = <<>> THEN 0
    ELSE 10 * Decimal(SubSeq(v, 1, Len(v) - 1)) + DigitVal(v[Len(v)])

IsPortNumber(v) ==
    IsNumber(v) /\ Decimal(v) >= 1 /\ Decimal(v) <= 65535

\* The two sides of a token's first hyphen, trimmed
LeftOf(t) == TrimSpace(SubSeq(t, 1, IndexOf(t, "-") - 1))
RightOf(t) == TrimSpace(SubSeq(t, IndexOf(t, "-") + 1, Len(t)))

IsSingleToken(t) == IsPortNumber(t)

IsRangeToken(t) ==
    /\ Contains(t, "-")
    /\ IsPortNumber(LeftOf(t))
    /\ IsPortNumber(RightOf(t))

IsWellFormedToken(t) ==
    \/ IsSingleToken(t)
    \/ IsRangeToken(t) /\ Decimal(LeftOf(t)) <= Decimal(RightOf(t))

WellFormed(str) ==
    LET ts == TokensOf(str)
    IN \A i \in 1..Len(ts) : IsWellFormedToken(TrimSpace(ts[i]))

\* The ports a well-formed token stands for
TokenPorts(t) ==
    IF IsSingleToken(t) THEN {Decimal(t)}
    ELSE {p \in Decimal(LeftOf(t))..Decimal(RightOf(t)) : TRUE}

DenotedPorts(str) ==
    LET ts == TokensOf(str)
    IN UNION {TokenPorts(TrimSpace(ts[i])) : i \in 1..Len(ts)}

\* C5: for a well-formed spec expandPortSpec succeeds and returns the
\* ascending, duplicate-free sequence of exactly the ports its single-port
\* tokens and its range tokens stand for; repeated ports are no error.
C5_ExpandIsSortedUnion ==
    (Returned /\ WellFormed(spec)) =>
        /\ ~Failed
        /\ IsAscending(expRes.ports)
        /\ Range(expRes.ports) = DenotedPorts(spec)

\* C5 witness: a returned call on a well-formed spec with a range token of
\* several ports and two tokens that share a port.
C5_Witness ==
    /\ Returned
    /\ WellFormed(spec)
    /\ ~Failed
    /\ \E i, j \in 1..Len(TokensOf(spec)) :
        /\ i < j
        /\ TokenPorts(TrimSpace(TokensOf(spec)[i]))
              \cap TokenPorts(TrimSpace(TokensOf(spec)[j])) # {}
        /\ Cardinality(TokenPorts(TrimSpace(TokensOf(spec)[j]))) >= 2
    /\ expRes.ports = <<1, 2, 3>>

\* The orders of n things
Orders(n) == {f \in [1..n -> 1..n] : \A i, j \in 1..n : f[i] = f[j] => i = j}

\* The spec with its tokens in the order f
Reordered(str, f) ==
    LET ts == TokensOf(str)
    IN Join([i \in 1..Len(ts) |-> ts[f[i]]], <<",">>)

\* C6: for a well-formed spec, the expansion of every reordering of its
\* tokens returns what the expansion of the spec returned.
C6_ExpandOrderIndependent ==
    (Returned /\ WellFormed(spec)) =>
        \A f \in Orders(Len(TokensOf(spec))) : \A seed \in Seeds :
            expandPortSpec(Reordered(spec, f), seed) = expRes

\* C6 witness: a returned call on a well-formed spec of three tokens, the
\* first standing for larger ports than the last, one of them a range.
C6_Witness ==
    /\ Returned
    /\ WellFormed(spec)
    /\ Len(TokensOf(spec)) = 3
    /\ Contains(spec, "-")
    /\ TokensOf(spec)[1] # TokensOf(spec)[3]
    /\ \E p \in TokenPorts(TrimSpace(TokensOf(spec)[1])) :
        \A q \in TokenPorts(TrimSpace(TokensOf(spec)[3])) : p > q
    /\ Len(expRes.ports) >= 3

\* The canonical form of a port list: its ports in decimal, joined by commas
Canonical(ps) == Join([i \in 1..Len(ps) |-> Itoa(ps[i])], <<",">>)

\* C7: the canonical form of every successful output expands, without error,
\* to that same output.
C7_ExpandIdempotent ==
    (Returned /\ ~Failed) =>
        \A seed \in Seeds :
            expandPortSpec(Canonical(expRes.ports), seed)
                = [ports |-> expRes.ports, err |-> NoErr]

\* C7 witness: a successful call whose spec is not in canonical form and
\* whose output holds several ports, one of several digits.
C7_Witness ==
    /\ Returned
    /\ ~Failed
    /\ Len(expRes.ports) >= 3
    /\ Canonical(expRes.ports) # spec
    /\ \E i \in 1..Len(expRes.ports) : expRes.ports[i] >= 10

\* A token with its outer whitespace and the whitespace at its first hyphen
\* removed, and a spec with every token so stripped
StripToken(tok) ==
    LET t == TrimSpace(tok)
    IN IF Contains(t, "-") THEN LeftOf(t) \o <<"-">> \o RightOf(t) ELSE t

Stripped(str) ==
    LET ts == TokensOf(str)
    IN Join([i \in 1..Len(ts) |-> StripToken(ts[i])], <<",">>)

HasEmptyToken(str) ==
    LET ts == TokensOf(str)
    IN \E i \in 1..Len(ts) : TrimSpace(ts[i]) = <<>>

HasEmptyBound(str) ==
    LET ts == TokensOf(str)
    IN \E i \in 1..Len(ts) :
        LET t == TrimSpace(ts[i])
        IN Contains(t, "-") /\ (LeftOf(t) = <<>> \/ RightOf(t) = <<>>)

\* C8: expandPortSpec fails on an empty or all-whitespace spec, on an empty
\* token and on a range with an empty bound; a failed call returns no port
\* list; and the call returns what it returns for the spec without the
\* whitespace around the spec, its tokens and the sides of a range hyphen.
C8_MalformedFailsWhitespaceIgnored ==
    Returned =>
        /\ (TrimSpace(spec) = <<>> \/ HasEmptyToken(spec) \/ HasEmptyBound(spec))
              => Failed
        /\ Failed => expRes.ports = Nil
        /\ \A seed \in Seeds : expandPortSpec(Stripped(spec), seed) = expRes

\* C8 witness: a failed call on a padded spec with an empty token between
\* tokens that are all well-formed.
C8_Witness ==
    /\ Returned
    /\ Failed
    /\ expRes.ports = Nil
    /\ Len(TokensOf(spec)) = 3
    /\ TrimSpace(TokensOf(spec)[2]) = <<>>
    /\ IsWellFormedToken(TrimSpace(TokensOf(spec)[1]))
    /\ IsWellFormedToken(TrimSpace(TokensOf(spec)[3]))
    /\ Stripped(spec) # spec

\* The numeric values of a spec: its single-port tokens and the two bounds of
\* its range tokens
NumericValues(str) ==
    LET ts == TokensOf(str)
    IN UNION { LET t == TrimSpace(ts[i])
               IN IF Contains(t, "-") THEN {LeftOf(t), RightOf(t)} ELSE {t}
             : i \in 1..Len(ts) }

\* A base-10 integer as written: digits, after a sign or not
IsInteger(v) ==
    \/ IsNumber(v)
    \/ v # <<>> /\ Head(v) \in {"+", "-"} /\ IsNumber(Tail(v))

IntegerValue(v) ==
    IF IsNumber(v) THEN Decimal(v)
    ELSE IF Head(v) = "-" THEN 0 - Decimal(Tail(v))
    ELSE Decimal(Tail(v))

InPortRange(v) ==
    IsInteger(v) /\ IntegerValue(v) >= 1 /\ IntegerValue(v) <= 65535

\* C9: a call on a spec with a numeric value that is no base-10 integer, is 0
\* or less, or is above 65535 fails, and every port of a successful output
\* lies in 1..65535.
C9_ValuesInPortRange ==
    Returned =>
        /\ (\E v \in NumericValues(spec) : ~InPortRange(v)) => Failed
        /\ ~Failed =>
            \A i \in 1..Len(expRes.ports) :
                expRes.ports[i] >= 1 /\ expRes.ports[i] <= 65535

\* C9 witness: a failed call on a spec that holds the value 65536 beside the
\* value 65535.
C9_Witness ==
    /\ Returned
    /\ Failed
    /\ \E v \in NumericValues(spec) : IsNumber(v) /\ Decimal(v) = 65536
    /\ \E v \in NumericValues(spec) : IsNumber(v) /\ Decimal(v) = 65535
    /\ \A v \in NumericValues(spec) : IsNumber(v) /\ Decimal(v) >= 65535

\* C10: a call on a spec with a range token whose start is above its end
\* fails; a range token with start = end is valid: alone it yields exactly
\* that port, and among other valid tokens that port is in the output.
C10_InvertedRangeFails ==
    Returned =>
        \A i \in 1..Len(TokensOf(spec)) :
            LET t == TrimSpace(TokensOf(spec)[i])
            IN IsRangeToken(t) =>
                /\ Decimal(LeftOf(t)) > Decimal(RightOf(t)) => Failed
                /\ (Decimal(LeftOf(t)) = Decimal(RightOf(t)) /\ WellFormed(spec))
                      => /\ ~Failed
                         /\ Decimal(LeftOf(t)) \in Range(expRes.ports)
                /\ (Decimal(LeftOf(t)) = Decimal(RightOf(t))
                        /\ Len(TokensOf(spec)) = 1)
                      => expRes = [ports |-> <<Decimal(LeftOf(t))>>, err |-> NoErr]

\* C10 witness: a returned call on a spec that is one range token with
\* start = end.
C10_Witness ==
    /\ Returned
    /\ Len(TokensOf(spec)) = 1
    /\ IsRangeToken(TrimSpace(spec))
    /\ Decimal(LeftOf(TrimSpace(spec))) = Decimal(RightOf(TrimSpace(spec)))
    /\ Len(expRes.ports) = 1

\* ---------------------------------------------------------------------
\* claims: configuration, shutdown order and blocking

\* No worker, supervisor or feeder has been started, no port was taken or
\* probed and no result exists
NoNetworkActivity ==
    /\ launched = 0
    /\ \A w \in 1..workers : wpc[w] = "idle"
    /\ feedPc = "idle"
    /\ supPc = "idle"
    /\ \A p \in 1..MaxPort : probeCount[p] = 0 /\ takeCount[p] = 0
    /\ results = <<>>
    /\ openPorts = <<>>

BadBounds ==
    \/ startFlag < 1 \/ startFlag > 65535
    \/ endFlag < 1 \/ endFlag > 65535
    \/ startFlag > endFlag

\* A port spec with an empty token, a value that is no integer of 1..65535,
\* or a range whose start is above its end
InvalidSpec(str) ==
    \/ TrimSpace(str) = <<>>
    \/ \E i \in 1..Len(TokensOf(str)) :
          LET t == TrimSpace(TokensOf(str)[i])
          IN \/ t = <<>>
             \/ /\ ~Contains(t, "-")
                /\ ~InPortRange(t)
             \/ /\ Contains(t, "-")
                /\ \/ ~InPortRange(LeftOf(t))
                   \/ ~InPortRange(RightOf(t))
                   \/ IntegerValue(LeftOf(t)) > IntegerValue(RightOf(t))

ConfigError ==
    \/ BadBounds
    \/ workers <= 0
    \/ resbuf < 1
    \/ portspec # <<>> /\ InvalidSpec(portspec)

\* C11: with a configuration error (start or end outside 1..65535, start
\* above end, workers <= 0, resbuf < 1, or an invalid port spec) the run
\* never gets past validation and planning: no worker is launched, no port
\* is probed, no result exists, and the only state it can stop in is the
\* fatal exit (elsewhere the expander call is pending or a step of main is
\* enabled); the fatal exit is taken for configuration errors only.
C11_ConfigErrorBeforeNetwork ==
    /\ ConfigError =>
          /\ mainPc \in {"validate", "plan", "expand", "fatal"}
          /\ NoNetworkActivity
          /\ \/ mainPc = "fatal"
             \/ expPc = "call"
             \/ ENABLED (Validate \/ CallExpand \/ BuildPlan)
    /\ mainPc = "fatal" => ConfigError /\ NoNetworkActivity

\* C11 witness: the fatal exit reached through the expander, with valid
\* flags, an invalid port spec and reachable ports.
C11_Witness ==
    /\ mainPc = "fatal"
    /\ ~BadBounds
    /\ workers >= 1
    /\ resbuf >= 1
    /\ portspec # <<>>
    /\ InvalidSpec(portspec)
    /\ reachable # {}
    /\ expPc = "ret"

AllWorkersDone == \A w \in 1..workers : wpc[w] = "done"

\* C12: the results stream is closed only when every worker has terminated,
\* no worker ever publishes to a closed results stream, and the drain ends
\* only after the last worker exited.
C12_ResultsClosedAfterWorkers ==
    /\ resultsClosed => AllWorkersDone
    /\ ~panicked
    /\ mainPc = "done" => AllWorkersDone /\ resultsClosed

\* C12 witness: the stream closed behind two workers while a published port
\* still waits in it.
C12_Witness ==
    /\ resultsClosed
    /\ workers >= 2
    /\ results # <<>>
    /\ mainPc = "drain"

\* C13: a terminated worker implies the port queue is closed and empty, and
\* a closed queue implies the feeder has enqueued every port of the plan.
C13_WorkerExitsOnClosedEmptyQueue ==
    /\ (\E w \in 1..workers : wpc[w] = "done") =>
          /\ portsClosed
          /\ ports = <<>>
    /\ portsClosed =>
          /\ feedIdx = Len(plan) + 1
          /\ feedPc = "done"
          /\ \A i \in 1..Len(plan) : takeCount[plan[i]] >= 1 \/ plan[i] \in Range(ports)

\* C13 witness: one worker has terminated while another still probes a port
\* of a plan of two or more ports.
C13_Witness ==
    /\ \E w \in 1..workers : wpc[w] = "done"
    /\ \E w \in 1..workers : wpc[w] = "probe"
    /\ Len(plan) >= 2

\* The channel operations a unit can be suspended in
BlockedSend(w) ==
    /\ w \in 1..workers
    /\ wpc[w] = "send"
    /\ ~resultsClosed
    /\ Len(results) >= resbuf

BlockedRecv(w) ==
    /\ w \in 1..workers
    /\ wpc[w] = "recv"
    /\ ports = <<>>
    /\ ~portsClosed

FeederBlocked ==
    /\ feedPc = "send"
    /\ feedIdx <= Len(plan)
    /\ Len(ports) >= workers

\* C14 as stated: in no reachable state is a worker blocked publishing to
\* the results stream or waiting to take a port, or the feeder blocked
\* enqueuing a port.
C14_NoBlockingOutsideProbe ==
    /\ \A w \in 1..workers : ~BlockedSend(w) /\ ~BlockedRecv(w)
    /\ ~FeederBlocked

AnyBlocked ==
    \/ \E w \in 1..workers : BlockedSend(w) \/ BlockedRecv(w)
    \/ FeederBlocked

\* C14: workers do wait on the empty port queue and on the full results
\* stream, and the feeder on the full port queue, but every such wait ends:
\* at every point of a run a later state has no unit blocked in a channel
\* operation.
C14_BlockingIsTransient == []<>~AnyBlocked

\* C14 witness: a worker holds an open port and the results stream is full.
C14_Witness ==
    /\ \E w \in 1..workers : BlockedSend(w)
    /\ Len(results) = resbuf
    /\ mainPc = "drain"

NothingProbed == \A p \in 1..MaxPort : probeCount[p] = 0 /\ takeCount[p] = 0

\* C15: a scan over the empty plan never probes, never holds a result, and
\* runs to completion with the empty list, whatever the worker count.
C15_EmptyPlanCompletes ==
    /\ [](plan = <<>> => NothingProbed /\ results = <<>> /\ openPorts = <<>>)
    /\ (plan = <<>>) ~> (ScanDone /\ openPorts = <<>>)

\* C15 witness: a finished scan of the empty plan with two workers and
\* reachable ports.
C15_Witness ==
    /\ ScanDone
    /\ plan = <<>>
    /\ workers >= 2
    /\ reachable # {}
    /\ AllWorkersDone

HyphenCount(t) == Cardinality({i \in 1..Len(t) : t[i] = "-"})

\* C16: a token is read as a range exactly when it holds a hyphen and is cut
\* at its first hyphen only: a call on a spec with a token that starts with
\* a hyphen, ends with one or holds two or more fails, and after a
\* successful call a hyphen token contributed the ports between its two
\* sides and a hyphen-free token the one port it names.
C16_HyphenMeansRange ==
    Returned =>
        \A i \in 1..Len(TokensOf(spec)) :
            LET t == TrimSpace(TokensOf(spec)[i])
            IN /\ (Contains(t, "-") /\ (Head(t) = "-" \/ t[Len(t)] = "-"
                                         \/ HyphenCount(t) >= 2)) => Failed
               /\ (~Failed /\ Contains(t, "-")) =>
                     /\ HyphenCount(t) = 1
                     /\ IntegerValue(LeftOf(t))..IntegerValue(RightOf(t))
                            \subseteq Range(expRes.ports)
               /\ (~Failed /\ ~Contains(t, "-")) =>
                     IntegerValue(t) \in Range(expRes.ports)

\* C16 witness: a failed call on a spec whose only fault is a token with two
\* hyphens between numbers.
C16_Witness ==
    /\ Returned
    /\ Failed
    /\ Len(TokensOf(spec)) >= 2
    /\ \E i \in 1..Len(TokensOf(spec)) :
          /\ HyphenCount(TrimSpace(TokensOf(spec)[i])) = 2
          /\ \A j \in 1..Len(TokensOf(spec)) :
                j # i => IsWellFormedToken(TrimSpace(TokensOf(spec)[j]))

Planned == mainPc \in {"launch", "goFeeder", "drain", "done"}

\* C17: once the plan is built, with an empty port spec the expander was not
\* called and the plan is start, start+1, ..., end: end-start+1 distinct
\* ports; with a non-empty port spec the plan is the expander's output, the
\* ports the spec stands for, whatever start and end are.
C17_PlanSource ==
    Planned =>
        IF portspec = <<>>
        THEN /\ expPc = "idle"
             /\ Len(plan) = endFlag - startFlag + 1
             /\ IsAscending(plan)
             /\ Range(plan) = startFlag..endFlag
        ELSE /\ expPc = "ret"
             /\ plan = expRes.ports
             /\ Range(plan) = DenotedPorts(portspec)

\* C17 witness: a finished scan planned from a port spec none of whose ports
\* lies between start and end.
C17_Witness ==
    /\ mainPc = "done"
    /\ portspec # <<>>
    /\ plan # <<>>
    /\ Range(plan) \cap (startFlag..endFlag) = {}
    /\ startFlag <= endFlag

\* C18: never more than `workers` worker units are launched and once
\* launching is over exactly `workers` are; never more than `workers` probes
\* are in flight and never more than `workers` ports wait in the queue.
C18_WorkerBound ==
    /\ launched <= workers
    /\ Cardinality({w \in 1..workers : wpc[w] # "idle"}) = launched
    /\ mainPc \in {"goFeeder", "drain", "done"} => launched = workers
    /\ Cardinality({w \in 1..workers : wpc[w] = "probe"}) <= workers
    /\ Len(ports) <= workers

\* C18 witness: every worker probes, the queue is full and the feeder still
\* has a port to enqueue.
C18_Witness ==
    /\ \A w \in 1..workers : wpc[w] = "probe"
    /\ Len(ports) = workers
    /\ feedIdx <= Len(plan)

\* C19: with start or end outside 1..65535 or start above end the run ends
\* in the fatal exit straight from validation, whatever the port spec is:
\* the expander is never called and nothing is launched or probed.
C19_BoundsCheckedFirst ==
    BadBounds =>
        /\ mainPc \in {"validate", "fatal"}
        /\ expPc = "idle"
        /\ plan = <<>>
        /\ NoNetworkActivity

\* C19 witness: the fatal exit with bad bounds beside a valid non-empty port
\* spec and valid worker and buffer counts.
C19_Witness ==
    /\ mainPc = "fatal"
    /\ BadBounds
    /\ portspec # <<>>
    /\ WellFormed(portspec)
    /\ workers >= 1
    /\ resbuf >= 1

====
